---- MODULE Spec2Model ----
(***************************************************************************)
(* Inventory back end (src/server.js, first module of the file): the       *)
(* produtos and movimentacoes tables, the request handlers that change     *)
(* them, PostgreSQL row locks under READ COMMITTED, and the low-stock      *)
(* notifier (src/services/emailService.js).                                *)
(*                                                                         *)
(* One handler invocation is a process.  A process step is the piece of    *)
(* JavaScript that runs between two awaits, together with the database     *)
(* statement whose result it consumes.  Writes of an open transaction are  *)
(* invisible to the others until COMMIT; they are applied to the tables    *)
(* by the commit step.  A statement that needs a row lock held by another  *)
(* transaction is not enabled until the lock is free.                      *)
(***************************************************************************)
EXTENDS Integers, Sequences, FiniteSets, TLC

\* ---------------------------------------------------------------- bounds
NumProcs == 2
MaxOps == 3
MaxProdutos == 2
MaxQuantidade == 2

Procs == 1..NumProcs
\* ids stand for UUIDs; id 0 is a UUID that no row ever has
ProdIds == 0..MaxProdutos
MovIds == 0..MaxOps

\* SQL NULL / JS null: the empty tuple; a present value v is <<v>>.
NULL == << >>
Some(v) == <<v>>
Val(o) == o[1]

\* request inputs
Tipos == {"entrada", "saida", "ajuste", "outro", ""}
Quantidades == 0..MaxQuantidade
Motivos == {Some("b")}
MotivosPost == {NULL}
QuantidadesIniciais == {-1, 1}
Minimos == {NULL, Some(1)}

\* ---------------------------------------------------------------- rows
SemProduto == [existe |-> FALSE, quantidade |-> 0, estoqueminimo |-> NULL]
SemMov == [existe |-> FALSE, produtoid |-> 0, tipo |-> "", quantidade |-> 0,
           motivo |-> NULL]
SemPedido == [op |-> "", id |-> 0, tipo |-> "", quantidade |-> 0,
              motivo |-> NULL]
SemResposta == [status |-> 0, causa |-> ""]
SemEmail == [chamado |-> FALSE, quantidade |-> 0, estoqueMinimo |-> NULL,
             entrega |-> "nenhuma"]

VARIABLES
  produtos,       \* table produtos: id -> row
  movimentacoes,  \* table movimentacoes: id -> row
  inicial,        \* quantity each product was registered with
  proxProd,       \* next product id handed out by uid()
  proxMov,        \* next movement id handed out by uid()
  lockProd,       \* row lock on produtos: id -> holder (0 = free)
  lockMov,        \* row lock on movimentacoes: id -> holder (0 = free)
  nOps,           \* requests received so far
  pc,             \* per handler: the statement it is about to run
  req,            \* per handler: the request
  produto,        \* per handler: the produtos row it read
  movimentacao,   \* per handler: the movimentacoes row it read
  novaQuantidade, \* per handler: the quantity it computed
  novaMovId,      \* per handler: id of the movement it inserts
  res,            \* per handler: the response sent (status 0 = none)
  email,          \* per handler: the snapshot handed to sendLowStockEmail
  nEmails,        \* per handler: calls of sendLowStockEmail in this request
  liberado,       \* per handler: client.release() calls in this request
  antes,          \* per handler: committed rows right before its COMMIT
  depois,         \* per handler: committed rows right after its COMMIT
  conflito,       \* per handler: another handler on the same movement ran
                  \* while this one was running
  EMAIL_RECIPIENTS \* process.env.EMAIL_RECIPIENTS is set

vars == <<produtos, movimentacoes, inicial, proxProd, proxMov, lockProd,
          lockMov, nOps, pc, req, produto, movimentacao, novaQuantidade,
          novaMovId, res, email, nEmails, liberado, antes, depois, conflito,
          EMAIL_RECIPIENTS>>

\* the process environment, read at start-up and never written
env == <<EMAIL_RECIPIENTS>>
tabelas == <<produtos, movimentacoes, inicial, proxProd>>
locais == <<produto, movimentacao, novaQuantidade, novaMovId>>
SemCommit == [prod |-> SemProduto, mov |-> SemMov]

\* ---------------------------------------------------------------- helpers
Max(a, b) == IF a >= b THEN a ELSE b

\* mutant: the row as it was read is handed over, not the updated one
toCamelCaseSemQuantidade(row, q) ==
  [quantidade |-> row.quantidade, estoqueMinimo |-> row.estoqueminimo]

\* toCamelCase applied to a produtos row: estoqueminimo -> estoqueMinimo
toCamelCase(row, q) ==
  [quantidade |-> q, estoqueMinimo |-> row.estoqueminimo]

\* sendLowStockEmail: returns at once when the snapshot has no estoqueMinimo
\* key or no recipient is configured; otherwise transporter.sendMail() is
\* started and its promise is left to settle on its own.
sendLowStockEmail(prod) ==
  [chamado |-> TRUE, quantidade |-> prod.quantidade,
   estoqueMinimo |-> prod.estoqueMinimo,
   entrega |-> IF "estoqueMinimo" \notin DOMAIN prod \/ ~EMAIL_RECIPIENTS
               THEN "nenhuma" ELSE "pendente"]

\* mutant: the threshold test with < in place of <=
EstoqueBaixoEstrito(prod, nova, estoqueAnterior) ==
  /\ prod.estoqueminimo # NULL
  /\ nova < Val(prod.estoqueminimo)
  /\ nova # estoqueAnterior

\* the threshold test of the three movement handlers
EstoqueBaixo(prod, nova, estoqueAnterior) ==
  /\ prod.estoqueminimo # NULL
  /\ nova <= Val(prod.estoqueminimo)
  /\ nova # estoqueAnterior

EmTransacao(p) == pc[p] \notin {"idle", "done"}

\* The server starts on a database that already holds one product, registered
\* with quantidade q and a minimum, and no movement.
Inicio(q, minimo, destinatarios) ==
  /\ EMAIL_RECIPIENTS = destinatarios
  /\ produtos = [i \in ProdIds |->
                   IF i = 1 THEN [existe |-> TRUE, quantidade |-> q,
                                  estoqueminimo |-> minimo]
                   ELSE SemProduto]
  /\ inicial = [i \in ProdIds |-> IF i = 1 THEN q ELSE 0]
  /\ movimentacoes = [m \in MovIds |-> SemMov]
  /\ proxProd = 2
  /\ proxMov = 1
  /\ lockProd = [i \in ProdIds |-> 0]
  /\ lockMov = [m \in MovIds |-> 0]
  /\ nOps = 0
  /\ pc = [p \in Procs |-> "idle"]
  /\ req = [p \in Procs |-> SemPedido]
  /\ produto = [p \in Procs |-> SemProduto]
  /\ movimentacao = [p \in Procs |-> SemMov]
  /\ novaQuantidade = [p \in Procs |-> 0]
  /\ novaMovId = [p \in Procs |-> 0]
  /\ res = [p \in Procs |-> SemResposta]
  /\ email = [p \in Procs |-> SemEmail]
  /\ nEmails = [p \in Procs |-> 0]
  /\ liberado = [p \in Procs |-> 0]
  /\ antes = [p \in Procs |-> SemCommit]
  /\ depois = [p \in Procs |-> SemCommit]
  /\ conflito = [p \in Procs |-> FALSE]

\* one product with quantidade 1, with or without a minimum; mail configured
Init == \E m \in Minimos : Inicio(1, m, TRUE)

\* ------------------------------------------------- a request is received
\* The handler starts with fresh locals; the bookkeeping of which requests
\* overlap is updated.  entra = the request passes validation and opens a
\* transaction.
Receber(p, r, entra, proximo) ==
  LET ativos == {q \in Procs \ {p} : EmTransacao(q)}
      rivais == IF entra /\ r.op \in {"patch", "delete"}
                THEN {q \in ativos : /\ req[q].op \in {"patch", "delete"}
                                     /\ req[q].id = r.id}
                ELSE {}
  IN /\ pc[p] = "idle"
     \* a finished invocation is gone before the next request is looked at
     /\ \A q \in Procs : pc[q] # "done"
     \* the handler numbers mean nothing: a request takes the first free one
     /\ \A q \in 1..(p - 1) : pc[q] # "idle"
     /\ nOps < MaxOps
     /\ nOps' = nOps + 1
     /\ req' = [req EXCEPT ![p] = r]
     /\ pc' = [pc EXCEPT ![p] = proximo]
     /\ produto' = [produto EXCEPT ![p] = SemProduto]
     /\ movimentacao' = [movimentacao EXCEPT ![p] = SemMov]
     /\ novaQuantidade' = [novaQuantidade EXCEPT ![p] = 0]
     /\ novaMovId' = [novaMovId EXCEPT ![p] = 0]
     /\ email' = [email EXCEPT ![p] = SemEmail]
     /\ nEmails' = [nEmails EXCEPT ![p] = 0]
     /\ liberado' = [liberado EXCEPT ![p] = 0]
     /\ antes' = [antes EXCEPT ![p] = SemCommit]
     /\ depois' = [depois EXCEPT ![p] = SemCommit]
     /\ conflito' = [q \in Procs |->
                       IF q = p THEN rivais # {}
                       ELSE IF q \in rivais THEN TRUE ELSE conflito[q]]
     /\ UNCHANGED <<env, tabelas, proxMov, lockProd, lockMov>>

\* mutant: a lock on the whole table in place of the row
LivreTabela(lock, k, p) == \A j \in DOMAIN lock : lock[j] \in {0, p}

\* mutant: the SELECT without FOR UPDATE, which waits for nobody
LivreSemEspera(lock, k, p) == TRUE

\* locks
Livre(lock, k, p) == lock[k] \in {0, p}
Soltar(lock, p) == [k \in DOMAIN lock |-> IF lock[k] = p THEN 0 ELSE lock[k]]

\* throw inside the try block: control goes to the catch, which awaits
\* ROLLBACK; the locks stay with the transaction until then.
Lancar(p, causa) ==
  /\ pc' = [pc EXCEPT ![p] = "rollback"]
  /\ res' = [res EXCEPT ![p] = [status |-> 0, causa |-> causa]]

\* ------------------------------------------------- POST /api/produtos
\* Number(quantidade) || 0 keeps a negative quantity as it is.
CriarProduto(valido, quantidade, estoqueMinimo) ==
  /\ nOps < MaxOps
  /\ nOps' = nOps + 1
  /\ proxProd <= MaxProdutos
  /\ IF valido
     THEN /\ produtos' = [produtos EXCEPT ![proxProd] =
                 [existe |-> TRUE, quantidade |-> quantidade,
                  estoqueminimo |-> estoqueMinimo]]
          /\ inicial' = [inicial EXCEPT ![proxProd] = quantidade]
          /\ proxProd' = proxProd + 1
     ELSE UNCHANGED <<produtos, inicial, proxProd>>
  /\ UNCHANGED <<env, movimentacoes, proxMov, lockProd, lockMov, pc, req,
                 locais, res, email, nEmails, liberado, antes, depois, conflito>>

\* ------------------------------------------------- PATCH /api/produtos/:id
allowedFields == {"nome", "descricao", "categoria", "unidade",
                  "estoqueMinimo", "localArmazenamento", "fornecedor",
                  "prioritario", "valorUnitario"}

Corpos == [keys : SUBSET {"quantidade", "estoqueMinimo"},
           quantidade : {MaxQuantidade + 1},
           estoqueMinimo : Minimos]

AtualizarProduto(id, patch) ==
  LET fieldsToUpdate == patch.keys \cap allowedFields
  IN /\ nOps < MaxOps
     /\ nOps' = nOps + 1
     /\ fieldsToUpdate # {} => lockProd[id] = 0
     /\ IF fieldsToUpdate # {} /\ produtos[id].existe
        THEN produtos' = [produtos EXCEPT ![id].estoqueminimo =
                IF "estoqueMinimo" \in fieldsToUpdate
                THEN patch.estoqueMinimo ELSE @]
        ELSE UNCHANGED produtos
     /\ UNCHANGED <<env, movimentacoes, inicial, proxProd, proxMov, lockProd,
                    lockMov, pc, req, locais, res, email, nEmails, liberado,
                    antes, depois, conflito>>

\* ------------------------------------------------- DELETE /api/produtos/:id
\* AtualizarProduto above is one UPDATE in its own transaction: it waits for
\* the row lock, which is modelled by the action not being enabled.
\* One DELETE statement in its own transaction: it locks the produtos row,
\* then the ON DELETE CASCADE trigger deletes the movimentacoes rows, waiting
\* for the locks other transactions hold on them.
ExcluirProdutoInicio(p, id) ==
  /\ Receber(p, [SemPedido EXCEPT !.op = "delprod", !.id = id], TRUE,
             "del_prod")
  /\ res' = [res EXCEPT ![p] = SemResposta]

ExcluirProduto(p) ==
  LET id == req[p].id
  IN /\ pc[p] = "del_prod"
     /\ Livre(lockProd, id, p)
     /\ IF produtos[id].existe
        THEN /\ lockProd' = [lockProd EXCEPT ![id] = p]
             /\ pc' = [pc EXCEPT ![p] = "cascade"]
             /\ UNCHANGED res
        ELSE /\ pc' = [pc EXCEPT ![p] = "done"]
             /\ res' = [res EXCEPT ![p] =
                          [status |-> 404, causa |-> "notfound_prod"]]
             /\ UNCHANGED lockProd
     /\ UNCHANGED <<env, tabelas, proxMov, lockMov, nOps, req, locais, email,
                    nEmails, liberado, antes, depois, conflito>>

\* mutant: the product row is deleted and its movements are left behind
ExcluirSemCascade(p) ==
  LET id == req[p].id
  IN /\ pc[p] = "cascade"
     /\ produtos' = [produtos EXCEPT ![id] = SemProduto]
     /\ lockProd' = Soltar(lockProd, p)
     /\ pc' = [pc EXCEPT ![p] = "done"]
     /\ res' = [res EXCEPT ![p] = [status |-> 200, causa |-> "ok"]]
     /\ UNCHANGED <<env, movimentacoes, inicial, proxProd, proxMov, lockMov,
                    nOps, req, locais, email, nEmails, liberado, antes,
                    depois, conflito>>

ExcluirCascade(p) ==
  LET id == req[p].id
      filhos == {m \in MovIds : /\ movimentacoes[m].existe
                                /\ movimentacoes[m].produtoid = id}
  IN /\ pc[p] = "cascade"
     /\ \A m \in filhos : Livre(lockMov, m, p)
     /\ produtos' = [produtos EXCEPT ![id] = SemProduto]
     /\ movimentacoes' = [m \in MovIds |->
                            IF m \in filhos THEN SemMov ELSE movimentacoes[m]]
     /\ lockProd' = Soltar(lockProd, p)
     /\ pc' = [pc EXCEPT ![p] = "done"]
     /\ res' = [res EXCEPT ![p] = [status |-> 200, causa |-> "ok"]]
     /\ UNCHANGED <<env, inicial, proxProd, proxMov, lockMov, nOps, req, locais,
                    email, nEmails, liberado, antes, depois, conflito>>

\* ------------------------------------------------- POST /api/movimentacoes
\* mutant: a validation that lets quantity 0 through
DadosInvalidosAceitaZero(tipo, quantidade) == tipo = "" \/ quantidade < 0

\* the body always carries a produtoId; tipo "" stands for a missing tipo,
\* quantidade 0 for a missing or zero quantity
DadosInvalidos(tipo, quantidade) == tipo = "" \/ quantidade <= 0

\* mutant: no Math.max(0, ...)
NovaQuantidadePostSemPiso(tipo, quantidade, q0) ==
  LET delta == IF tipo = "entrada" THEN quantidade ELSE -quantidade
  IN IF tipo = "ajuste" THEN quantidade ELSE q0 + delta

NovaQuantidadePost(tipo, quantidade, q0) ==
  LET delta == IF tipo = "entrada" THEN quantidade ELSE -quantidade
  IN Max(0, IF tipo = "ajuste" THEN quantidade ELSE q0 + delta)

PostInicio(p, produtoId, tipo, quantidade, motivo) ==
  LET r == [op |-> "post", id |-> produtoId, tipo |-> tipo,
            quantidade |-> quantidade, motivo |-> motivo]
  IN IF DadosInvalidos(tipo, quantidade)
     THEN /\ Receber(p, r, FALSE, "done")
          /\ res' = [res EXCEPT ![p] = [status |-> 400, causa |-> "invalid"]]
     ELSE /\ Receber(p, r, TRUE, "sel_prod")
          /\ res' = [res EXCEPT ![p] = SemResposta]

\* SELECT ... FOR UPDATE, then the code up to the next await: the quantity
\* is computed and the notifier is called before anything is written.
PostSelProduto(p) ==
  LET id == req[p].id
      row == produtos[id]
      estoqueAnterior == row.quantidade
      nova == NovaQuantidadePost(req[p].tipo, req[p].quantidade,
                                 row.quantidade)
  IN /\ pc[p] = "sel_prod"
     /\ req[p].op = "post"
     /\ Livre(lockProd, id, p)
     /\ IF ~row.existe
        THEN /\ Lancar(p, "notfound_prod")
             /\ UNCHANGED <<lockProd, produto, novaQuantidade, email, nEmails>>
        ELSE /\ lockProd' = [lockProd EXCEPT ![id] = p]
             /\ produto' = [produto EXCEPT ![p] = row]
             /\ novaQuantidade' = [novaQuantidade EXCEPT ![p] = nova]
             /\ IF EstoqueBaixo(row, nova, estoqueAnterior)
                THEN /\ email' = [email EXCEPT ![p] =
                                 sendLowStockEmail(toCamelCase(row, nova))]
                     /\ nEmails' = [nEmails EXCEPT ![p] = @ + 1]
                ELSE UNCHANGED <<email, nEmails>>
             /\ pc' = [pc EXCEPT ![p] = "upd_prod"]
             /\ UNCHANGED res
     /\ UNCHANGED <<env, tabelas, proxMov, lockMov, nOps, req, movimentacao,
                    novaMovId, liberado, antes, depois, conflito>>

\* UPDATE produtos, then novaMov is built
PostUpdProduto(p) ==
  /\ pc[p] = "upd_prod"
  /\ req[p].op = "post"
  /\ pc' = [pc EXCEPT ![p] = "ins_mov"]
  /\ UNCHANGED <<env, tabelas, proxMov, lockProd, lockMov, nOps, req, locais, res,
                 email, nEmails, liberado, antes, depois, conflito>>

\* INSERT INTO movimentacoes
PostInsMov(p) ==
  /\ pc[p] = "ins_mov"
  /\ pc' = [pc EXCEPT ![p] = "sel_atual"]
  /\ UNCHANGED <<env, tabelas, proxMov, lockProd, lockMov, nOps, req, locais, res,
                 email, nEmails, liberado, antes, depois, conflito>>

\* SELECT * FROM produtos (reads the transaction's own update)
PostSelAtualizado(p) ==
  /\ pc[p] = "sel_atual"
  /\ pc' = [pc EXCEPT ![p] = "commit"]
  /\ UNCHANGED <<env, tabelas, proxMov, lockProd, lockMov, nOps, req, locais, res,
                 email, nEmails, liberado, antes, depois, conflito>>

\* mutant: the movement records the change that was applied to the stock
NovaMovAplicada(p) ==
  [existe |-> TRUE, produtoid |-> req[p].id, tipo |-> req[p].tipo,
   quantidade |-> Max(novaQuantidade[p] - produto[p].quantidade,
                      produto[p].quantidade - novaQuantidade[p]),
   motivo |-> req[p].motivo]

\* what COMMIT makes visible, by handler
NovaMov(p) ==
  [existe |-> TRUE, produtoid |-> req[p].id, tipo |-> req[p].tipo,
   quantidade |-> req[p].quantidade, motivo |-> req[p].motivo]

\* mutant: the movement statement runs outside the transaction and is lost
EfetivarSoProduto(p, prodId, movId, movRow, status) ==
  /\ pc[p] = "commit"
  /\ produtos' = [produtos EXCEPT ![prodId].quantidade = novaQuantidade[p]]
  /\ antes' = [antes EXCEPT ![p] =
                 [prod |-> produtos[prodId], mov |-> movimentacoes[movId]]]
  /\ depois' = [depois EXCEPT ![p] =
                  [prod |-> produtos'[prodId], mov |-> movimentacoes[movId]]]
  /\ lockProd' = Soltar(lockProd, p)
  /\ lockMov' = Soltar(lockMov, p)
  /\ res' = [res EXCEPT ![p] = [status |-> status, causa |-> "ok"]]
  /\ liberado' = [liberado EXCEPT ![p] = @ + 1]
  /\ pc' = [pc EXCEPT ![p] = "done"]
  /\ UNCHANGED <<env, movimentacoes, inicial, proxProd, proxMov, nOps, req,
                 produto, movimentacao, novaQuantidade, novaMovId, email,
                 nEmails, conflito>>

\* COMMIT, the response, and the finally block.  uid() values are opaque:
\* the movement ids are numbered in the order the rows become visible,
\* which for one product is the order of their criadoem.
Efetivar(p, prodId, movId, movRow, status) ==
  /\ pc[p] = "commit"
  /\ novaMovId' = [novaMovId EXCEPT ![p] =
                     IF req[p].op = "post" THEN movId ELSE @]
  /\ proxMov' = IF req[p].op = "post" THEN proxMov + 1 ELSE proxMov
  /\ produtos' = [produtos EXCEPT ![prodId].quantidade = novaQuantidade[p]]
  /\ movimentacoes' = [movimentacoes EXCEPT ![movId] = movRow]
  /\ antes' = [antes EXCEPT ![p] =
                 [prod |-> produtos[prodId], mov |-> movimentacoes[movId]]]
  /\ depois' = [depois EXCEPT ![p] =
                  [prod |-> produtos'[prodId], mov |-> movimentacoes'[movId]]]
  /\ lockProd' = Soltar(lockProd, p)
  /\ lockMov' = Soltar(lockMov, p)
  /\ res' = [res EXCEPT ![p] = [status |-> status, causa |-> "ok"]]
  /\ liberado' = [liberado EXCEPT ![p] = @ + 1]
  /\ pc' = [pc EXCEPT ![p] = "done"]
  /\ UNCHANGED <<env, inicial, proxProd, nOps, req, produto, movimentacao,
                 novaQuantidade, email, nEmails, conflito>>

PostCommit(p) ==
  /\ req[p].op = "post"
  /\ Efetivar(p, req[p].id, proxMov, NovaMov(p), 201)

\* ------------------------------------------------- PATCH /api/movimentacoes/:id
\* mutant: only a negative quantidade is refused
QuantidadeInvalidaAceitaZero(quantidade) == quantidade < 0

QuantidadeInvalida(quantidade) == quantidade <= 0

\* mutant: the new magnitude applied without subtracting the old one
NovaQuantidadePatchSemAntiga(tipoAntigo, quantidadeAntiga, quantidade, q0) ==
  Max(0, IF tipoAntigo = "entrada" THEN q0 + quantidade ELSE q0 - quantidade)

NovaQuantidadePatch(tipoAntigo, quantidadeAntiga, quantidade, q0) ==
  LET diferenca == quantidade - quantidadeAntiga
  IN Max(0, IF tipoAntigo = "entrada" THEN q0 + diferenca
            ELSE q0 - diferenca)

PatchInicio(p, id, quantidade, motivo) ==
  LET r == [op |-> "patch", id |-> id, tipo |-> "",
            quantidade |-> quantidade, motivo |-> motivo]
  IN IF QuantidadeInvalida(quantidade)
     THEN /\ Receber(p, r, FALSE, "done")
          /\ res' = [res EXCEPT ![p] = [status |-> 400, causa |-> "invalid"]]
     ELSE /\ Receber(p, r, TRUE, "sel_mov")
          /\ res' = [res EXCEPT ![p] = SemResposta]

\* SELECT * FROM movimentacoes ... FOR UPDATE and the "ajuste" guard
PatchSelMov(p) ==
  LET id == req[p].id
      row == movimentacoes[id]
  IN /\ pc[p] = "sel_mov"
     /\ req[p].op = "patch"
     /\ Livre(lockMov, id, p)
     /\ IF ~row.existe
        THEN /\ Lancar(p, "notfound_mov")
             /\ UNCHANGED <<lockMov, movimentacao>>
        ELSE /\ lockMov' = [lockMov EXCEPT ![id] = p]
             /\ movimentacao' = [movimentacao EXCEPT ![p] = row]
             /\ IF row.tipo = "ajuste"
                THEN Lancar(p, "ajuste")
                ELSE /\ pc' = [pc EXCEPT ![p] = "sel_prod"]
                     /\ UNCHANGED res
     /\ UNCHANGED <<env, tabelas, proxMov, lockProd, nOps, req, produto,
                    novaQuantidade, novaMovId, email, nEmails, liberado,
                    antes, depois, conflito>>

\* SELECT * FROM produtos ... FOR UPDATE and the new stock
PatchSelProduto(p) ==
  LET id == movimentacao[p].produtoid
      row == produtos[id]
      nova == NovaQuantidadePatch(movimentacao[p].tipo,
                                  movimentacao[p].quantidade,
                                  req[p].quantidade, row.quantidade)
  IN /\ pc[p] = "sel_prod"
     /\ req[p].op = "patch"
     /\ Livre(lockProd, id, p)
     /\ IF ~row.existe
        THEN /\ Lancar(p, "notfound_prod")
             /\ UNCHANGED <<lockProd, produto, novaQuantidade>>
        ELSE /\ lockProd' = [lockProd EXCEPT ![id] = p]
             /\ produto' = [produto EXCEPT ![p] = row]
             /\ novaQuantidade' = [novaQuantidade EXCEPT ![p] = nova]
             /\ pc' = [pc EXCEPT ![p] = "upd_prod"]
             /\ UNCHANGED res
     /\ UNCHANGED <<env, tabelas, proxMov, lockMov, nOps, req, movimentacao,
                    novaMovId, email, nEmails, liberado, antes, depois,
                    conflito>>

\* UPDATE produtos ... RETURNING *
PatchUpdProduto(p) ==
  /\ pc[p] = "upd_prod"
  /\ req[p].op = "patch"
  /\ pc' = [pc EXCEPT ![p] = "upd_mov"]
  /\ UNCHANGED <<env, tabelas, proxMov, lockProd, lockMov, nOps, req, locais, res,
                 email, nEmails, liberado, antes, depois, conflito>>

\* UPDATE movimentacoes ... RETURNING *, then the threshold test
PatchUpdMov(p) ==
  LET estoqueAnterior == produto[p].quantidade
      produtoAtualizado == produtos[movimentacao[p].produtoid]
  IN /\ pc[p] = "upd_mov"
     /\ IF EstoqueBaixo(produto[p], novaQuantidade[p], estoqueAnterior)
        THEN /\ email' = [email EXCEPT ![p] = sendLowStockEmail(
                            toCamelCase(produtoAtualizado, novaQuantidade[p]))]
             /\ nEmails' = [nEmails EXCEPT ![p] = @ + 1]
        ELSE UNCHANGED <<email, nEmails>>
     /\ pc' = [pc EXCEPT ![p] = "commit"]
     /\ UNCHANGED <<env, tabelas, proxMov, lockProd, lockMov, nOps, req, locais,
                    res, liberado, antes, depois, conflito>>

\* mutant: the correction also rewrites the movement's tipo
PatchCommitMudaTipo(p) ==
  /\ req[p].op = "patch"
  /\ Efetivar(p, movimentacao[p].produtoid, req[p].id,
              [movimentacoes[req[p].id] EXCEPT
                 !.quantidade = req[p].quantidade, !.motivo = req[p].motivo,
                 !.tipo = "ajuste"],
              200)

PatchCommit(p) ==
  /\ req[p].op = "patch"
  /\ Efetivar(p, movimentacao[p].produtoid, req[p].id,
              [movimentacoes[req[p].id] EXCEPT
                 !.quantidade = req[p].quantidade, !.motivo = req[p].motivo],
              200)

\* ------------------------------------------------- DELETE /api/movimentacoes/:id
NovaQuantidadeDelete(tipo, quantidade, q0) ==
  Max(0, IF tipo = "saida" THEN q0 + quantidade ELSE q0 - quantidade)

DeleteInicio(p, id) ==
  /\ Receber(p, [SemPedido EXCEPT !.op = "delete", !.id = id], TRUE,
             "sel_mov")
  /\ res' = [res EXCEPT ![p] = SemResposta]

\* SELECT * FROM movimentacoes WHERE id = $1: a plain read, it takes no lock
\* and sees the last committed row.
DeleteSelMov(p) ==
  LET row == movimentacoes[req[p].id]
  IN /\ pc[p] = "sel_mov"
     /\ req[p].op = "delete"
     /\ IF ~row.existe
        THEN /\ Lancar(p, "notfound_mov")
             /\ UNCHANGED movimentacao
        ELSE /\ movimentacao' = [movimentacao EXCEPT ![p] = row]
             /\ pc' = [pc EXCEPT ![p] = "sel_prod"]
             /\ UNCHANGED res
     /\ UNCHANGED <<env, tabelas, proxMov, lockProd, lockMov, nOps, req, produto,
                    novaQuantidade, novaMovId, email, nEmails, liberado,
                    antes, depois, conflito>>

\* SELECT * FROM produtos ... FOR UPDATE and the inverse effect
DeleteSelProduto(p) ==
  LET id == movimentacao[p].produtoid
      row == produtos[id]
      mov == movimentacao[p]
  IN /\ pc[p] = "sel_prod"
     /\ req[p].op = "delete"
     /\ Livre(lockProd, id, p)
     /\ IF ~row.existe
        THEN /\ Lancar(p, "notfound_prod")
             /\ UNCHANGED <<lockProd, produto, novaQuantidade>>
        ELSE /\ lockProd' = [lockProd EXCEPT ![id] = p]
             /\ produto' = [produto EXCEPT ![p] = row]
             /\ IF mov.tipo \in {"saida", "entrada"}
                THEN /\ novaQuantidade' = [novaQuantidade EXCEPT ![p] =
                          NovaQuantidadeDelete(mov.tipo, mov.quantidade,
                                               row.quantidade)]
                     /\ pc' = [pc EXCEPT ![p] = "upd_prod"]
                     /\ UNCHANGED res
                ELSE /\ Lancar(p, "ajuste")
                     /\ UNCHANGED novaQuantidade
     /\ UNCHANGED <<env, tabelas, proxMov, lockMov, nOps, req, movimentacao,
                    novaMovId, email, nEmails, liberado, antes, depois,
                    conflito>>

\* UPDATE produtos ... RETURNING *, then the threshold test
DeleteUpdProduto(p) ==
  LET estoqueAnterior == produto[p].quantidade
      produtoAtualizado == produtos[movimentacao[p].produtoid]
  IN /\ pc[p] = "upd_prod"
     /\ req[p].op = "delete"
     /\ IF EstoqueBaixo(produto[p], novaQuantidade[p], estoqueAnterior)
        THEN /\ email' = [email EXCEPT ![p] = sendLowStockEmail(
                            toCamelCase(produtoAtualizado, novaQuantidade[p]))]
             /\ nEmails' = [nEmails EXCEPT ![p] = @ + 1]
        ELSE UNCHANGED <<email, nEmails>>
     /\ pc' = [pc EXCEPT ![p] = "del_mov"]
     /\ UNCHANGED <<env, tabelas, proxMov, lockProd, lockMov, nOps, req, locais,
                    res, liberado, antes, depois, conflito>>

\* DELETE FROM movimentacoes WHERE id = $1: waits for the row lock; a row
\* that is gone by then is simply not deleted (0 rows, no error).
DeleteDelMov(p) ==
  LET id == req[p].id
  IN /\ pc[p] = "del_mov"
     /\ Livre(lockMov, id, p)
     /\ lockMov' = IF movimentacoes[id].existe
                   THEN [lockMov EXCEPT ![id] = p] ELSE lockMov
     /\ pc' = [pc EXCEPT ![p] = "commit"]
     /\ UNCHANGED <<env, tabelas, proxMov, lockProd, nOps, req, locais, res, email,
                    nEmails, liberado, antes, depois, conflito>>

DeleteCommit(p) ==
  /\ req[p].op = "delete"
  /\ Efetivar(p, movimentacao[p].produtoid, req[p].id, SemMov, 200)

\* ------------------------------------------------- failures
\* Any awaited statement may reject (connection loss, deadlock victim,
\* statement timeout).  Inside a transaction the catch block runs next.
Consultas == {"sel_prod", "sel_mov", "upd_prod", "upd_mov", "ins_mov",
              "sel_atual", "del_mov", "commit"}

QueryFalha(p) ==
  /\ pc[p] \in Consultas
  /\ Lancar(p, "storage")
  /\ UNCHANGED <<env, tabelas, proxMov, lockProd, lockMov, nOps, req, locais,
                 email, nEmails, liberado, antes, depois, conflito>>

\* pool.query of DELETE /api/produtos/:id rejects: its catch answers 500
ExcluirProdutoFalha(p) ==
  /\ pc[p] \in {"del_prod", "cascade"}
  /\ lockProd' = Soltar(lockProd, p)
  /\ pc' = [pc EXCEPT ![p] = "done"]
  /\ res' = [res EXCEPT ![p] = [status |-> 500, causa |-> "storage"]]
  /\ UNCHANGED <<env, tabelas, proxMov, lockMov, nOps, req, locais, email,
                 nEmails, liberado, antes, depois, conflito>>

\* the status the catch block answers with
StatusDoErro(op, causa) ==
  IF op = "delete" /\ causa = "ajuste" THEN 400 ELSE 500

\* catch: ROLLBACK, the error response, then finally: client.release()
Rollback(p) ==
  /\ pc[p] = "rollback"
  /\ lockProd' = Soltar(lockProd, p)
  /\ lockMov' = Soltar(lockMov, p)
  /\ res' = [res EXCEPT ![p].status = StatusDoErro(req[p].op, res[p].causa)]
  /\ liberado' = [liberado EXCEPT ![p] = @ + 1]
  /\ pc' = [pc EXCEPT ![p] = "done"]
  /\ UNCHANGED <<env, tabelas, proxMov, nOps, req, locais, email, nEmails, antes,
                 depois, conflito>>

\* the ROLLBACK itself rejects: the catch block throws before answering,
\* finally still releases the client; the server ends the transaction with
\* the session.
RollbackFalha(p) ==
  /\ pc[p] = "rollback"
  /\ lockProd' = Soltar(lockProd, p)
  /\ lockMov' = Soltar(lockMov, p)
  /\ res' = [res EXCEPT ![p] = [status |-> 0, causa |-> "rollback"]]
  /\ liberado' = [liberado EXCEPT ![p] = @ + 1]
  /\ pc' = [pc EXCEPT ![p] = "done"]
  /\ UNCHANGED <<env, tabelas, proxMov, nOps, req, locais, email, nEmails, antes,
                 depois, conflito>>

\* the handler invocation ends: its request, response and locals are gone
Encerrar(p) ==
  /\ pc[p] = "done"
  /\ pc' = [pc EXCEPT ![p] = "idle"]
  /\ req' = [req EXCEPT ![p] = SemPedido]
  /\ produto' = [produto EXCEPT ![p] = SemProduto]
  /\ movimentacao' = [movimentacao EXCEPT ![p] = SemMov]
  /\ novaQuantidade' = [novaQuantidade EXCEPT ![p] = 0]
  /\ novaMovId' = [novaMovId EXCEPT ![p] = 0]
  /\ res' = [res EXCEPT ![p] = SemResposta]
  /\ email' = [email EXCEPT ![p] = SemEmail]
  /\ nEmails' = [nEmails EXCEPT ![p] = 0]
  /\ liberado' = [liberado EXCEPT ![p] = 0]
  /\ antes' = [antes EXCEPT ![p] = SemCommit]
  /\ depois' = [depois EXCEPT ![p] = SemCommit]
  /\ conflito' = [conflito EXCEPT ![p] = FALSE]
  /\ UNCHANGED <<env, tabelas, proxMov, lockProd, lockMov, nOps>>

\* ------------------------------------------------- specification
\* a request names an id that was handed out, or one that never was
AlvosProd == 0..(proxProd - 1)
AlvosMov == 0..(proxMov - 1)

Next ==
  \/ \E v \in BOOLEAN, q \in QuantidadesIniciais, m \in Minimos :
       CriarProduto(v, q, m)
  \/ \E id \in AlvosProd, patch \in Corpos : AtualizarProduto(id, patch)
  \/ \E p \in Procs, id \in AlvosProd : ExcluirProdutoInicio(p, id)
  \/ \E p \in Procs : ExcluirProduto(p)
  \/ \E p \in Procs : ExcluirCascade(p)
  \/ \E p \in Procs : ExcluirProdutoFalha(p)
  \/ \E p \in Procs, id \in AlvosProd, t \in Tipos, q \in Quantidades,
        m \in MotivosPost :
       /\ t \in {"outro", ""} => q = 1
       /\ q = 0 => t \in {"entrada", "ajuste"}
       /\ PostInicio(p, id, t, q, m)
  \/ \E p \in Procs : PostSelProduto(p)
  \/ \E p \in Procs : PostUpdProduto(p)
  \/ \E p \in Procs : PostInsMov(p)
  \/ \E p \in Procs : PostSelAtualizado(p)
  \/ \E p \in Procs : PostCommit(p)
  \/ \E p \in Procs, id \in AlvosMov, q \in Quantidades, m \in Motivos :
       PatchInicio(p, id, q, m)
  \/ \E p \in Procs : PatchSelMov(p)
  \/ \E p \in Procs : PatchSelProduto(p)
  \/ \E p \in Procs : PatchUpdProduto(p)
  \/ \E p \in Procs : PatchUpdMov(p)
  \/ \E p \in Procs : PatchCommit(p)
  \/ \E p \in Procs, id \in AlvosMov : DeleteInicio(p, id)
  \/ \E p \in Procs : DeleteSelMov(p)
  \/ \E p \in Procs : DeleteSelProduto(p)
  \/ \E p \in Procs : DeleteUpdProduto(p)
  \/ \E p \in Procs : DeleteDelMov(p)
  \/ \E p \in Procs : DeleteCommit(p)
  \/ \E p \in Procs : QueryFalha(p)
  \/ \E p \in Procs : Rollback(p)
  \/ \E p \in Procs : RollbackFalha(p)
  \/ \E p \in Procs : Encerrar(p)

Spec == Init /\ [][Next]_vars

\* ------------------------------------------------- mail delivery
\* The promise of transporter.sendMail() settles some time after the call,
\* or never: .then logs the message id, .catch logs the error, and neither
\* touches the handler that made the call.

EntregaOk(p) ==
  /\ email[p].entrega = "pendente"
  /\ email' = [email EXCEPT ![p].entrega = "enviado"]
  /\ UNCHANGED <<env, tabelas, proxMov, lockProd, lockMov, nOps, pc, req,
                 locais, res, nEmails, liberado, antes, depois, conflito>>

\* mutant: the rejection reaches the handler, which is still in its try
EntregaFalhaPropaga(p) ==
  /\ email[p].entrega = "pendente"
  /\ email' = [email EXCEPT ![p].entrega = "falhou"]
  /\ IF EmTransacao(p) /\ pc[p] # "rollback"
     THEN Lancar(p, "email")
     ELSE UNCHANGED <<pc, res>>
  /\ UNCHANGED <<env, tabelas, proxMov, lockProd, lockMov, nOps, req, locais,
                 nEmails, liberado, antes, depois, conflito>>

EntregaFalha(p) ==
  /\ email[p].entrega = "pendente"
  /\ email' = [email EXCEPT ![p].entrega = "falhou"]
  /\ UNCHANGED <<env, tabelas, proxMov, lockProd, lockMov, nOps, pc, req,
                 locais, res, nEmails, liberado, antes, depois, conflito>>

\* ------------------------------------------------- one request at a time
\* Requests served one after the other by handler 1, on a product registered
\* with quantidade 10 and minimum 5, with the mail deliveries settling at any
\* moment; mail may or may not be configured.
QuantidadesSeq == {1, 6, 10}

InitSeq == \E d \in BOOLEAN : Inicio(10, Some(5), d)

NextSeq ==
  \/ \E q \in QuantidadesIniciais, m \in Minimos : CriarProduto(TRUE, q, m)
  \/ \E id \in AlvosProd \ {0}, t \in {"entrada", "saida"},
        q \in QuantidadesSeq, m \in MotivosPost :
       PostInicio(1, id, t, q, m)
  \/ PostSelProduto(1)
  \/ PostUpdProduto(1)
  \/ PostInsMov(1)
  \/ PostSelAtualizado(1)
  \/ PostCommit(1)
  \/ \E id \in AlvosMov \ {0}, q \in QuantidadesSeq, m \in Motivos :
       PatchInicio(1, id, q, m)
  \/ PatchSelMov(1)
  \/ PatchSelProduto(1)
  \/ PatchUpdProduto(1)
  \/ PatchUpdMov(1)
  \/ PatchCommit(1)
  \/ \E id \in AlvosMov \ {0} : DeleteInicio(1, id)
  \/ DeleteSelMov(1)
  \/ DeleteSelProduto(1)
  \/ DeleteUpdProduto(1)
  \/ DeleteDelMov(1)
  \/ DeleteCommit(1)
  \/ QueryFalha(1)
  \/ Rollback(1)
  \/ RollbackFalha(1)
  \/ Encerrar(1)
  \/ EntregaOk(1)
  \/ EntregaFalha(1)

SpecSeq == InitSeq /\ [][NextSeq]_vars

\* ================================================================ claims
Motor == {"post", "patch", "delete"}
Concluiu(p) == pc[p] = "done"
Sucesso(p) == Concluiu(p) /\ req[p].op \in Motor /\ res[p].status \in {200, 201}

\* C1: every stored product has quantidade >= 0 in every committed state,
\* whatever requests were served.
C1_QuantidadeNaoNegativa ==
  \A i \in ProdIds : produtos[i].existe => produtos[i].quantidade >= 0

\* C2: an ApplyMovement that commits computed its quantity from the
\* quantity that was committed when it commits (never from a stale q0), so
\* concurrent calls on one product add up as if run one after the other.
C2_SemAtualizacaoPerdida ==
  \A p \in Procs :
    (Sucesso(p) /\ req[p].op = "post") =>
      produto[p].quantidade = antes[p].prod.quantidade

\* two overlapping ApplyMovement calls on the same product both committed
\* a change, the second starting from what the first committed
C2_Witness ==
  /\ Sucesso(1) /\ Sucesso(2)
  /\ req[1].op = "post" /\ req[2].op = "post"
  /\ req[1].id = req[2].id
  /\ depois[1].prod.quantidade # antes[1].prod.quantidade
  /\ depois[2].prod.quantidade # antes[2].prod.quantidade
  /\ \/ antes[2].prod.quantidade = depois[1].prod.quantidade
     \/ antes[1].prod.quantidade = depois[2].prod.quantidade

\* C3: an engine operation that commits, and did not share its movement
\* with an overlapping operation, read exactly the product row and the
\* movement row that were committed when it commits: overlapping operations
\* on one product take effect one after the other.
C3_SerializadoPeloLock ==
  \A p \in Procs :
    (Sucesso(p) /\ ~conflito[p]) =>
      /\ produto[p] = antes[p].prod
      /\ req[p].op \in {"patch", "delete"} => movimentacao[p] = antes[p].mov
      /\ req[p].op = "post" => ~antes[p].mov.existe

\* a correction or reversal overlapped an ApplyMovement on the same product
\* and both committed a change
C3_Witness ==
  /\ Sucesso(1) /\ Sucesso(2)
  /\ {req[1].op, req[2].op} \in {{"post", "patch"}, {"post", "delete"}}
  /\ antes[1].prod.existe /\ antes[2].prod.existe
  /\ depois[1].prod.quantidade # antes[1].prod.quantidade
  /\ depois[2].prod.quantidade # antes[2].prod.quantidade
  /\ \E i \in ProdIds :
       /\ {req[q].id : q \in {r \in Procs : req[r].op = "post"}} = {i}
       /\ \A q \in Procs : req[q].op # "post" => movimentacao[q].produtoid = i
  /\ \/ antes[2].prod.quantidade = depois[1].prod.quantidade
     \/ antes[1].prod.quantidade = depois[2].prod.quantidade

\* the movements of product i, replayed in creation order from the quantity
\* it was registered with
RECURSIVE Saldo(_, _, _)
Saldo(i, m, q) ==
  IF m > MaxOps THEN q
  ELSE LET row == movimentacoes[m]
       IN IF row.existe /\ row.produtoid = i
          THEN Saldo(i, m + 1,
                     Max(0, IF row.tipo = "ajuste" THEN row.quantidade
                            ELSE IF row.tipo = "entrada"
                                 THEN q + row.quantidade
                                 ELSE q - row.quantidade))
          ELSE Saldo(i, m + 1, q)

\* C4: in every committed state a product's quantidade is the replay of the
\* movements now in its log (entrada adds, saida subtracts, ajuste resets,
\* floor at zero), starting from its registration quantity.
C4_QuantidadeEhSaldo ==
  \A i \in ProdIds :
    produtos[i].existe => produtos[i].quantidade = Saldo(i, 1, inicial[i])

\* C5: an engine operation whose unit of work was rolled back never
\* called the notifier.
C5_NotificaSoAposCommit ==
  \A p \in Procs :
    (Concluiu(p) /\ req[p].op \in Motor /\ res[p].status \notin {200, 201})
      => nEmails[p] = 0

\* C6: a committed engine operation called the notifier exactly when the
\* product has a minimum m, the committed quantity q1 is <= m and q1 differs
\* from the quantity q0 committed before it; never more than once.
C6_NotificaSeESomenteSe ==
  \A p \in Procs :
    Sucesso(p) =>
      LET m == antes[p].prod.estoqueminimo
          q0 == antes[p].prod.quantidade
          q1 == depois[p].prod.quantidade
      IN /\ nEmails[p] \in {0, 1}
         /\ nEmails[p] = 1 <=> (m # NULL /\ q1 <= Val(m) /\ q1 # q0)

\* a product already at or below its minimum is moved again and the
\* notifier is called again
C6_Witness ==
  \E p \in Procs :
    /\ Sucesso(p)
    /\ nEmails[p] = 1
    /\ antes[p].prod.estoqueminimo # NULL
    /\ antes[p].prod.quantidade <= Val(antes[p].prod.estoqueminimo)
    /\ depois[p].prod.quantidade # antes[p].prod.quantidade

\* C7: a committed ApplyMovement stored max(0, q0 + n) for entrada,
\* max(0, q0 - n) for saida and max(0, n) for ajuste, q0 being the quantity
\* committed before it.
C7_NovaQuantidade ==
  \A p \in Procs :
    (Sucesso(p) /\ req[p].op = "post") =>
      LET q0 == antes[p].prod.quantidade
          q1 == depois[p].prod.quantidade
          n == req[p].quantidade
      IN /\ req[p].tipo = "entrada" => q1 = Max(0, q0 + n)
         /\ req[p].tipo = "saida" => q1 = Max(0, q0 - n)
         /\ req[p].tipo = "ajuste" => q1 = Max(0, n)

\* a saida larger than the stock succeeded and stored 0
C7_Witness ==
  \E p \in Procs :
    /\ Sucesso(p) /\ req[p].op = "post" /\ req[p].tipo = "saida"
    /\ req[p].quantidade > antes[p].prod.quantidade
    /\ antes[p].prod.quantidade > 0
    /\ depois[p].prod.quantidade = 0

\* the request ran into no missing row and no storage error
SemFalha(p) == res[p].causa \notin {"notfound_prod", "notfound_mov",
                                    "storage", "rollback"}

C9_AjusteProibido ==
  \A p \in Procs :
    (Concluiu(p) /\ req[p].op \in {"patch", "delete"}
       /\ res[p].causa = "ajuste" /\ movimentacao[p].tipo = "ajuste") =>
      /\ res[p].status # StatusDoErro(req[p].op, "notfound_mov")
      /\ res[p].status # StatusDoErro(req[p].op, "storage")
      /\ ~depois[p].prod.existe

\* C10: a committed correction of an entrada (saida) movement from a to n
\* stored max(0, q0 + (n - a)) (max(0, q0 - (n - a))) and, in the same
\* commit, the movement's quantidade n and motivo as requested, leaving its
\* other columns alone.
C10_Correcao ==
  \A p \in Procs :
    (Sucesso(p) /\ req[p].op = "patch"
       /\ antes[p].mov.tipo \in {"entrada", "saida"}) =>
      LET q0 == antes[p].prod.quantidade
          a == antes[p].mov.quantidade
          n == req[p].quantidade
      IN /\ antes[p].mov.tipo = "entrada" =>
              depois[p].prod.quantidade = Max(0, q0 + (n - a))
         /\ antes[p].mov.tipo = "saida" =>
              depois[p].prod.quantidade = Max(0, q0 - (n - a))
         /\ depois[p].mov = [antes[p].mov EXCEPT !.quantidade = n,
                                                 !.motivo = req[p].motivo]

\* an entrada corrected from 1 to 2 raised the stock by exactly 1 and
\* changed the reason
C10_Witness ==
  \E p \in Procs :
    /\ Sucesso(p) /\ req[p].op = "patch"
    /\ antes[p].mov.existe /\ antes[p].mov.tipo = "entrada"
    /\ antes[p].mov.quantidade = 1 /\ req[p].quantidade = 2
    /\ depois[p].prod.quantidade = antes[p].prod.quantidade + 1
    /\ depois[p].mov.motivo # antes[p].mov.motivo

\* C11: a committed ReverseMovement (DELETE) of a saida movement of
\* quantidade m stored q0 + m, of an entrada movement max(0, q0 - m), q0 and
\* the movement being the rows committed before it; after its commit the
\* movement is no longer in the log.
C11_Estorno ==
  \A p \in Procs :
    (Sucesso(p) /\ req[p].op = "delete" /\ antes[p].mov.existe) =>
      LET q0 == antes[p].prod.quantidade
          q1 == depois[p].prod.quantidade
          m == antes[p].mov.quantidade
      IN /\ antes[p].mov.tipo = "saida" => q1 = q0 + m
         /\ antes[p].mov.tipo = "entrada" => q1 = Max(0, q0 - m)
         /\ ~movimentacoes[req[p].id].existe


\* the committed tables differ across the step
Mudou == produtos' # produtos \/ movimentacoes' # movimentacoes

\* handler p commits in this step: the product row takes the quantity it
\* computed and, in the same step, the movement is appended, corrected or
\* removed; no other row changes
CommitCompleto(p) ==
  LET i == IF req[p].op = "post" THEN req[p].id
           ELSE movimentacao[p].produtoid
      k == IF req[p].op = "post" THEN proxMov ELSE req[p].id
  IN /\ pc[p] = "commit" /\ pc'[p] = "done"
     /\ req[p].op \in Motor
     /\ res'[p].status \in {200, 201}
     /\ produtos'[i] = [produtos[i] EXCEPT !.quantidade = novaQuantidade[p]]
     /\ \A j \in ProdIds \ {i} : produtos'[j] = produtos[j]
     /\ \A j \in MovIds \ {k} : movimentacoes'[j] = movimentacoes[j]
     /\ req[p].op = "post" => movimentacoes'[k] = NovaMov(p)
     /\ req[p].op = "patch" =>
          movimentacoes'[k] = [movimentacoes[k] EXCEPT
                                 !.quantidade = req[p].quantidade,
                                 !.motivo = req[p].motivo]
     /\ req[p].op = "delete" => ~movimentacoes'[k].existe

C13_ProdutoNaoEncontrado ==
  \A p \in Procs :
    (Concluiu(p) /\ req[p].op = "post" /\ res[p].causa = "notfound_prod") =>
      /\ res[p].status # StatusDoErro("post", "storage")
      /\ res[p].status # 400
      /\ depois[p] = SemCommit

\* C14: a correction or reversal whose movement, or its product, does not
\* exist is answered with a status of its own, different from the one the
\* same handler gives for an ajuste movement or a storage error, and
\* commits nothing.
C14_MovimentacaoNaoEncontrada ==
  \A p \in Procs :
    (Concluiu(p) /\ req[p].op \in {"patch", "delete"}
       /\ res[p].causa \in {"notfound_mov", "notfound_prod"}) =>
      /\ res[p].status # StatusDoErro(req[p].op, "ajuste")
      /\ res[p].status # StatusDoErro(req[p].op, "storage")
      /\ depois[p] = SemCommit

TiposValidos == {"entrada", "saida", "ajuste"}

\* C15: an ApplyMovement whose tipo is none of entrada, saida, ajuste is
\* answered 400 without entering a transaction, and no stored movement has
\* such a tipo.
C15_TipoDesconhecido ==
  /\ \A p \in Procs :
       (req[p].op = "post" /\ req[p].tipo \notin TiposValidos) =>
         /\ pc[p] = "done"
         /\ res[p].status = 400
         /\ depois[p] = SemCommit
  /\ \A k \in MovIds :
       movimentacoes[k].existe => movimentacoes[k].tipo \in TiposValidos

\* C16: an ApplyMovement or CorrectMovement with quantidade <= 0 is answered
\* 400 in the step that receives it, whatever locks other handlers hold: it
\* never waits at a statement, holds no lock, takes no connection, reads and
\* commits nothing.
C16_RejeitadoAntesDoLock ==
  \A p \in Procs :
    (req[p].op \in {"post", "patch"} /\ req[p].quantidade <= 0) =>
      /\ pc[p] = "done"
      /\ res[p] = [status |-> 400, causa |-> "invalid"]
      /\ liberado[p] = 0
      /\ \A i \in ProdIds : lockProd[i] # p
      /\ \A k \in MovIds : lockMov[k] # p
      /\ produto[p] = SemProduto /\ movimentacao[p] = SemMov
      /\ antes[p] = SemCommit /\ depois[p] = SemCommit

\* a correction with quantidade 0 was rejected while another handler held
\* the lock of that movement and of its product
C16_Witness ==
  \E p \in Procs, q \in Procs :
    /\ p # q
    /\ Concluiu(p) /\ req[p].op = "patch" /\ req[p].quantidade = 0
    /\ res[p].status = 400
    /\ movimentacoes[req[p].id].existe
    /\ lockMov[req[p].id] = q
    /\ lockProd[movimentacoes[req[p].id].produtoid] = q
    /\ EmTransacao(q)

\* C17: the movement a committed ApplyMovement appended carries the tipo
\* and the quantidade of the request, whatever change the stock took.
C17_MovimentoComoPedido ==
  \A p \in Procs :
    (Sucesso(p) /\ req[p].op = "post") =>
      /\ depois[p].mov = [existe |-> TRUE, produtoid |-> req[p].id,
                          tipo |-> req[p].tipo,
                          quantidade |-> req[p].quantidade,
                          motivo |-> req[p].motivo]
      /\ ~antes[p].mov.existe

\* a saida of 2 against a stock of 1 is recorded with quantidade 2 although
\* the stock dropped by 1
C17_Witness ==
  \E p \in Procs :
    /\ Sucesso(p) /\ req[p].op = "post" /\ req[p].tipo = "saida"
    /\ antes[p].prod.quantidade = 1 /\ depois[p].prod.quantidade = 0
    /\ req[p].quantidade = 2
    /\ depois[p].mov.quantidade = 2 /\ depois[p].mov.tipo = "saida"

\* C18: when all that ever happened to product i is an entrada of n
\* followed by a saida of n, the second just committed by handler 1, its
\* quantidade is again the one it was registered with.
C18_EntradaDepoisSaida ==
  \A i \in ProdIds \ {0} :
    LET primeira == movimentacoes[1]
        segunda == movimentacoes[2]
    IN (/\ Sucesso(1) /\ req[1].op = "post" /\ req[1].id = i
        /\ novaMovId[1] = 2
        /\ nOps = (IF i = 1 THEN 2 ELSE 3)
        /\ primeira.existe /\ primeira.produtoid = i
        /\ primeira.tipo = "entrada" /\ primeira.quantidade >= 1
        /\ segunda.existe /\ segunda.produtoid = i
        /\ segunda.tipo = "saida"
        /\ segunda.quantidade = primeira.quantidade)
       => produtos[i].quantidade = inicial[i]

Movimento(tipo, quantidade) ==
  [existe |-> TRUE, produtoid |-> 1, tipo |-> tipo,
   quantidade |-> quantidade, motivo |-> NULL]

\* handler 1 has just committed the k-th request ever received, an
\* ApplyMovement on product 1, which is still as it was registered but for
\* its quantidade
Passo(k, tipo, quantidade) ==
  /\ Sucesso(1) /\ nOps = k
  /\ req[1].op = "post" /\ req[1].id = 1
  /\ req[1].tipo = tipo /\ req[1].quantidade = quantidade
  /\ inicial[1] = 10 /\ antes[1].prod.estoqueminimo = Some(5)

\* C19: on a product with quantidade 10 and minimum 5, saida 6, entrada 1,
\* entrada 10 served in this order store 4, 5 and 15; the first movement is
\* recorded as saida with quantidade 6; the notifier is called once in the
\* first request with quantidade 4, once in the second with quantidade 5,
\* and not in the third.
C19_Cenario ==
  /\ Passo(1, "saida", 6) =>
       /\ depois[1].prod.quantidade = 4
       /\ depois[1].mov = Movimento("saida", 6)
       /\ nEmails[1] = 1 /\ email[1].chamado /\ email[1].quantidade = 4
  /\ (Passo(2, "entrada", 1) /\ movimentacoes[1] = Movimento("saida", 6)) =>
       /\ depois[1].prod.quantidade = 5
       /\ nEmails[1] = 1 /\ email[1].chamado /\ email[1].quantidade = 5
  /\ (/\ Passo(3, "entrada", 10)
      /\ movimentacoes[1] = Movimento("saida", 6)
      /\ movimentacoes[2] = Movimento("entrada", 1)) =>
       /\ depois[1].prod.quantidade = 15
       /\ nEmails[1] = 0 /\ ~email[1].chamado

\* the third request of the scenario has committed 15 without a notification
C19_Witness ==
  /\ Passo(3, "entrada", 10)
  /\ movimentacoes[1] = Movimento("saida", 6)
  /\ movimentacoes[2] = Movimento("entrada", 1)
  /\ movimentacoes[3] = Movimento("entrada", 10)
  /\ antes[1].prod.quantidade = 5
  /\ produtos[1].quantidade = 15
  /\ nEmails[1] = 0

\* C20: the settling of a mail delivery changes neither the handler's
\* position nor its response nor any stored row or lock, and a handler whose
\* delivery failed, and which met no storage error, has committed the
\* quantity it notified and answered 200/201.
C20_EntregaNaoInterfere ==
  /\ [][\A p \in Procs :
          (/\ email[p].entrega = "pendente"
           /\ email'[p].entrega \in {"enviado", "falhou"})
          => /\ pc'[p] = pc[p]
             /\ res'[p] = res[p]
             /\ UNCHANGED <<produtos, movimentacoes, lockProd, lockMov,
                            novaQuantidade, antes, depois>>]_vars
  /\ [](\A p \in Procs :
          (Concluiu(p) /\ email[p].entrega \in {"falhou", "pendente"}
             /\ res[p].causa \notin {"storage", "rollback"})
          => /\ Sucesso(p)
             /\ depois[p].prod.quantidade = email[p].quantidade)

\* a delivery failed, and the handler that started it committed the
\* quantity it had notified and answered 201
C20_Witness ==
  /\ Sucesso(1) /\ req[1].op = "post"
  /\ email[1].entrega = "falhou"
  /\ depois[1].prod.quantidade = email[1].quantidade
  /\ depois[1].prod.quantidade # antes[1].prod.quantidade
  /\ depois[1].mov.existe

\* C21: the snapshot handed to the notifier carries the quantity the
\* operation computed and the product's minimum; once the operation has
\* committed, both are what is stored for the product.
C21_RetratoDoEmail ==
  \A p \in Procs :
    (req[p].op \in Motor /\ nEmails[p] >= 1) =>
      /\ email[p].chamado
      /\ email[p].quantidade = novaQuantidade[p]
      /\ email[p].estoqueMinimo = produto[p].estoqueminimo
      /\ Sucesso(p) =>
           /\ email[p].quantidade = depois[p].prod.quantidade
           /\ email[p].estoqueMinimo = depois[p].prod.estoqueminimo

\* a reversal committed a lower quantity and notified exactly that quantity
C21_Witness ==
  \E p \in Procs :
    /\ Sucesso(p) /\ req[p].op = "delete" /\ nEmails[p] = 1
    /\ depois[p].prod.quantidade < antes[p].prod.quantidade
    /\ email[p].quantidade = depois[p].prod.quantidade
    /\ email[p].estoqueMinimo = Some(1)

\* C22: a handler calls the notifier at most once, and one that has ended
\* with a notifier call made is a committed operation whose stored quantity
\* is at or below the product's minimum and differs from the one before:
\* rejected and failed operations made none.
C22_NotificacoesContadas ==
  \A p \in Procs :
    /\ nEmails[p] <= 1
    /\ (Concluiu(p) /\ nEmails[p] = 1) =>
         /\ Sucesso(p)
         /\ antes[p].prod.estoqueminimo # NULL
         /\ depois[p].prod.quantidade <= Val(antes[p].prod.estoqueminimo)
         /\ depois[p].prod.quantidade # antes[p].prod.quantidade

\* the rows whose lock the next statement of handler p takes or waits for
ProdPedidos(p) ==
  IF pc[p] = "del_prod" THEN {req[p].id}
  ELSE IF pc[p] = "sel_prod"
       THEN {IF req[p].op = "post" THEN req[p].id
             ELSE movimentacao[p].produtoid}
       ELSE {}

MovPedidos(p) ==
  IF pc[p] = "del_mov" \/ (pc[p] = "sel_mov" /\ req[p].op = "patch")
  THEN {req[p].id}
  ELSE IF pc[p] = "cascade"
       THEN {m \in MovIds : /\ movimentacoes[m].existe
                            /\ movimentacoes[m].produtoid = req[p].id}
       ELSE {}

\* the next statement of p cannot run yet
Bloqueado(p) ==
  \/ \E i \in ProdPedidos(p) : ~Livre(lockProd, i, p)
  \/ \E k \in MovPedidos(p) : ~Livre(lockMov, k, p)

\* p needs a row that q has locked
EsperaPor(p, q) ==
  /\ q # p
  /\ \/ \E i \in ProdPedidos(p) : lockProd[i] = q
     \/ \E k \in MovPedidos(p) : lockMov[k] = q

\* the product a request is about
ItemDe(p) ==
  IF req[p].op \in {"post", "delprod"} THEN req[p].id
  ELSE IF movimentacao[p].existe THEN movimentacao[p].produtoid
       ELSE movimentacoes[req[p].id].produtoid

C24_QuantidadeSoPorMovimento ==
  [][\A i \in ProdIds :
       (/\ produtos[i].existe /\ produtos'[i].existe
        /\ produtos'[i].quantidade # produtos[i].quantidade)
       => \E k \in MovIds :
            /\ movimentacoes'[k] # movimentacoes[k]
            /\ i \in {movimentacoes[k].produtoid,
                      movimentacoes'[k].produtoid}]_vars

C26_MovimentoTravado ==
  \A p \in Procs :
    (Sucesso(p) /\ req[p].op \in {"patch", "delete"}) =>
      /\ antes[p].mov.existe
      /\ movimentacao[p].quantidade = antes[p].mov.quantidade

\* C27: no two engine operations ever wait for a row lock of each other.
C27_SemCicloDeEspera ==
  \A p \in Procs, q \in Procs :
    (req[p].op \in Motor /\ req[q].op \in Motor) =>
      ~(EsperaPor(p, q) /\ EsperaPor(q, p))

\* handler p commits an operation of kind op on movement k in this step
CommitSobre(p, op, k) ==
  /\ pc[p] = "commit" /\ pc'[p] = "done"
  /\ req[p].op = op /\ req[p].id = k
  /\ res'[p].status \in {200, 201}

\* C28: a stored movement keeps its tipo and its product; its quantidade and
\* motivo change only in the commit of a correction of that movement; it
\* leaves the log only in the commit of a reversal of that movement or in
\* the deletion of its product; a movement appears only as the new row of a
\* committing ApplyMovement, under an id never used before.
C28_MovimentoImutavel ==
  [][\A k \in MovIds :
       LET velho == movimentacoes[k]
           novo == movimentacoes'[k]
       IN novo # velho =>
            IF ~velho.existe
            THEN /\ k = proxMov
                 /\ \E p \in Procs : /\ pc[p] = "commit" /\ pc'[p] = "done"
                                     /\ req[p].op = "post"
                                     /\ novo = NovaMov(p)
            ELSE IF novo.existe
                 THEN /\ novo.tipo = velho.tipo
                      /\ novo.produtoid = velho.produtoid
                      /\ \E p \in Procs : CommitSobre(p, "patch", k)
                 ELSE \/ \E p \in Procs : CommitSobre(p, "delete", k)
                      \/ \E p \in Procs : /\ pc[p] = "cascade"
                                          /\ pc'[p] = "done"
                                          /\ req[p].id = velho.produtoid]_vars

\* a correction changed the quantidade of a movement and left its tipo and
\* product as they were
C28_Witness ==
  \E p \in Procs :
    /\ Sucesso(p) /\ req[p].op = "patch"
    /\ antes[p].mov.existe /\ depois[p].mov.existe
    /\ depois[p].mov.quantidade # antes[p].mov.quantidade
    /\ depois[p].mov.tipo = antes[p].mov.tipo
    /\ depois[p].mov.produtoid = antes[p].mov.produtoid
    /\ movimentacoes[req[p].id] = depois[p].mov

\* C29: when all that ever happened to product i, registered with a
\* quantidade >= 0, is an entrada or saida and then the reversal of that
\* movement, just committed by handler 1, its quantidade is again the one it
\* was registered with and the log is empty again.
C29_EstornoDesfaz ==
  \A i \in ProdIds \ {0} :
    (/\ Sucesso(1) /\ req[1].op = "delete" /\ req[1].id = 1
     /\ inicial[i] >= 0
     /\ nOps = (IF i = 1 THEN 2 ELSE 3)
     /\ antes[1].mov.existe /\ antes[1].mov.produtoid = i
     /\ antes[1].mov.tipo \in {"entrada", "saida"})
    => /\ produtos[i].quantidade = inicial[i]
       /\ \A k \in MovIds : ~movimentacoes[k].existe

\* C30: an engine operation that passed validation and has ended sent
\* exactly one response and released its client exactly once.
C30_UmaRespostaUmaLiberacao ==
  \A p \in Procs :
    (Concluiu(p) /\ req[p].op \in Motor /\ res[p].causa # "invalid") =>
      /\ res[p].status # 0
      /\ liberado[p] = 1

====
